---- MODULE Spec2Model ----
(***************************************************************************)
(* Model of python/pascal-interpreter/symbol_table.py: the symbol table    *)
(* (an OrderedDict from name to symbol) and the SymbolTableBuilder, a node *)
(* visitor that walks a Pascal AST, defines a symbol per declaration and   *)
(* checks every reference.                                                 *)
(***************************************************************************)
EXTENDS Integers, Sequences, FiniteSets, TLC

VARIABLES
    program,      \* the tree handed to build(tree); NoTree before build is called
    symbols,      \* symtab._symbols: sequence of [key, value] in insertion order
    stack,        \* nodes whose visit is pending, innermost call first
    error,        \* the exception that ended the pass, or NoError
    visited,      \* history: the nodes visited so far, in order
    call,         \* a client's last direct call on the SymbolTable, with its result
    lastDefined,  \* history of those calls: per name, the symbol last passed to define
    seen          \* history of those calls: per name, the lookup result since the last define

vars == <<program, symbols, stack, error, visited, call, lastDefined, seen>>

----------------------------------------------------------------------------
(* Bounds of the model *)

MaxDecls == 2
MaxStmts == 2

----------------------------------------------------------------------------
(* Python values *)

None == [class |-> "NoneType"]

NoError == [exc |-> "none"]

NameError(args) == [exc |-> "NameError", args |-> args]

UndeclaredMsg(var_name) == <<var_name>>

DuplicateMsg(var_name) == <<var_name, "declared more than once!">>

----------------------------------------------------------------------------
(* Symbols *)

BuiltinTypeSymbol(name) == [class |-> "BuiltinTypeSymbol", name |-> name, type |-> None]

VarSymbol(name, type) == [class |-> "VarSymbol", name |-> name, type |-> type]

----------------------------------------------------------------------------
(* SymbolTable *)

Keys(s) == {s[i].key : i \in DOMAIN s}

\* define that puts a new entry first instead of last
define_prepend(s, symbol) ==
    IF symbol.name \in Keys(s)
    THEN [i \in DOMAIN s |->
            IF s[i].key = symbol.name
            THEN [key |-> symbol.name, value |-> symbol]
            ELSE s[i]]
    ELSE <<[key |-> symbol.name, value |-> symbol]>> \o s

define(s, symbol) ==
    IF symbol.name \in Keys(s)
    THEN [i \in DOMAIN s |->
            IF s[i].key = symbol.name
            THEN [key |-> symbol.name, value |-> symbol]
            ELSE s[i]]
    ELSE Append(s, [key |-> symbol.name, value |-> symbol])

\* lookup by subscript (self._symbols[name]): an absent name is a KeyError
lookup_subscript(s, name) ==
    IF name \in Keys(s)
    THEN s[CHOOSE i \in DOMAIN s : s[i].key = name].value
    ELSE [class |-> "KeyError"]

lookup(s, name) ==
    IF name \in Keys(s)
    THEN s[CHOOSE i \in DOMAIN s : s[i].key = name].value
    ELSE None

BUILTINS == <<"INTEGER", "REAL", "STRING", "BOOLEAN">>

RECURSIVE DefineAll(_, _)
DefineAll(s, names) ==
    IF names = <<>> THEN s
    ELSE DefineAll(define(s, BuiltinTypeSymbol(Head(names))), Tail(names))

init_builtins == DefineAll(<<>>, BUILTINS)

----------------------------------------------------------------------------
(* AST nodes, with the attributes the visitor reads.  The visitor reads no  *)
(* attribute of a Writeln or a ProcedureDeclaration node: args and block    *)
(* stand for the argument and the body it leaves alone.                     *)

Num(value) == [node |-> "Num", value |-> value]

String(value) == [node |-> "String", value |-> value]

Boolean(value) == [node |-> "Boolean", value |-> value]

Var(value) == [node |-> "Var", value |-> value]

Type(value) == [node |-> "Type", value |-> value]

NoOp == [node |-> "NoOp"]

UnaryOp(expr) == [node |-> "UnaryOp", expr |-> expr]

BinOp(left, right) == [node |-> "BinOp", left |-> left, right |-> right]

RelOp(left, right) == [node |-> "RelOp", left |-> left, right |-> right]

Assign(left, right) == [node |-> "Assign", left |-> left, right |-> right]

Writeln(args) == [node |-> "Writeln", args |-> args]

Condition(condition, statement, otherwise) ==
    [node |-> "Condition", condition |-> condition, statement |-> statement,
     otherwise |-> otherwise]

ForLoop(identifier, boundary, statement) ==
    [node |-> "ForLoop", identifier |-> identifier, boundary |-> boundary,
     statement |-> statement]

Compound(children) == [node |-> "Compound", children |-> children]

VarDecl(var, type) == [node |-> "VarDecl", var |-> var, type |-> type]

Block(declarations, compound_statement) ==
    [node |-> "Block", declarations |-> declarations,
     compound_statement |-> compound_statement]

ProcedureDeclaration(name, block) ==
    [node |-> "ProcedureDeclaration", name |-> name, block |-> block]

Program(block) == [node |-> "Program", block |-> block]

NoTree == [node |-> "NoTree"]

----------------------------------------------------------------------------
(* The trees build is called with *)

SeqsUpTo(S, n) == UNION {[1..k -> S] : k \in 0..n}

DeclNames == {"x", "INTEGER"}

TypeNames == {"REAL", "FOO"}

VarDecls ==
    {VarDecl(Var(n), Type(t)) : n \in DeclNames, t \in TypeNames}
    \cup {VarDecl(Var("y"), Type("REAL"))}

\* a procedure whose body declares x twice and assigns to an undeclared name
ProcDecls ==
    {ProcedureDeclaration("p",
        Block(<<VarDecl(Var("x"), Type("REAL")), VarDecl(Var("x"), Type("REAL"))>>,
              Compound(<<Assign(Var("y"), Num(1))>>)))}

Decls == VarDecls \cup ProcDecls

Stmts ==
    {Assign(Var("x"), Num(1)), Assign(Var("INTEGER"), Boolean(TRUE))}
    \cup {Assign(Var("INTEGER"), BinOp(Var("INTEGER"), UnaryOp(Var("y"))))}
    \cup {Writeln(Var("x"))}
    \cup {Condition(RelOp(Var("INTEGER"), Num(1)), Assign(Var("INTEGER"), String("s")), NoOp)}
    \cup {ForLoop(Var("INTEGER"), Var(b), Writeln(Var("y"))) : b \in {"y", "REAL"}}
    \cup {ForLoop(Var("x"), Var("REAL"), Writeln(Var("y")))}

Bodies == {Compound(c) : c \in SeqsUpTo(Stmts, MaxStmts)}

Programs == {Program(Block(d, b)) : d \in SeqsUpTo(Decls, MaxDecls), b \in Bodies}

ProgramsNoDecls == {Program(Block(<<>>, b)) : b \in Bodies}

----------------------------------------------------------------------------
(* SymbolTableBuilder *)

Init ==
    /\ program = NoTree
    /\ symbols = init_builtins
    /\ stack = <<>>
    /\ error = NoError
    /\ visited = <<>>
    /\ call = [op |-> "new"]
    /\ lastDefined = [n \in {BUILTINS[i] : i \in DOMAIN BUILTINS} |-> BuiltinTypeSymbol(n)]
    /\ seen = [n \in {} |-> None]

tableVars == <<call, lastDefined, seen>>

\* NodeVisitor.visit: the handler is chosen by the class name of the node
Visiting(class) ==
    /\ stack # <<>>
    /\ Head(stack).node = class

\* the handler visits the nodes sub, in order, and returns
Return(sub) ==
    /\ visited' = Append(visited, Head(stack))
    /\ stack' = sub \o Tail(stack)
    /\ error' = NoError

\* the handler raises exc: the exception leaves every pending visit
Raise(exc) ==
    /\ visited' = Append(visited, Head(stack))
    /\ stack' = <<>>
    /\ error' = exc

NoChange == UNCHANGED <<program, symbols, tableVars>>

build ==
    /\ program = NoTree
    /\ \E tree \in Programs :
        /\ program' = tree
        /\ stack' = <<tree>>
    /\ UNCHANGED <<symbols, error, visited, tableVars>>

build_no_decls ==
    /\ program = NoTree
    /\ \E tree \in ProgramsNoDecls :
        /\ program' = tree
        /\ stack' = <<tree>>
    /\ UNCHANGED <<symbols, error, visited, tableVars>>

visit_Program ==
    /\ Visiting("Program")
    /\ Return(<<Head(stack).block>>)
    /\ NoChange

visit_Block ==
    /\ Visiting("Block")
    /\ Return(Head(stack).declarations \o <<Head(stack).compound_statement>>)
    /\ NoChange

visit_ProcedureDeclaration ==
    /\ Visiting("ProcedureDeclaration")
    /\ Return(<<>>)
    /\ NoChange

visit_Compound ==
    /\ Visiting("Compound")
    /\ Return(Head(stack).children)
    /\ NoChange

visit_Condition ==
    /\ Visiting("Condition")
    /\ Return(<<Head(stack).condition, Head(stack).statement, Head(stack).otherwise>>)
    /\ NoChange

visit_ForLoop ==
    /\ Visiting("ForLoop")
    /\ Return(<<Head(stack).identifier, Head(stack).boundary, Head(stack).statement>>)
    /\ NoChange

\* a write statement that visits its argument
visit_Writeln_args ==
    /\ Visiting("Writeln")
    /\ Return(<<Head(stack).args>>)
    /\ NoChange

visit_Writeln ==
    /\ Visiting("Writeln")
    /\ Return(<<>>)
    /\ NoChange

visit_Assign ==
    /\ Visiting("Assign")
    /\ LET node == Head(stack)
           var_name == node.left.value
           var_symbol == lookup(symbols, var_name)
       IN  IF var_symbol = None
           THEN Raise(NameError(UndeclaredMsg(var_name)))
           ELSE Return(<<node.right>>)
    /\ NoChange

visit_VarDecl ==
    /\ Visiting("VarDecl")
    /\ LET node == Head(stack)
           type_name == node.type.value
           type_symbol == lookup(symbols, type_name)
           var_name == node.var.value
           var_symbol == VarSymbol(var_name, type_symbol)
       IN  IF lookup(symbols, var_name) = None
           THEN /\ Raise(NameError(DuplicateMsg(var_name)))
                /\ symbols' = symbols
           ELSE /\ Return(<<>>)
                /\ symbols' = define(symbols, var_symbol)
    /\ UNCHANGED <<program, tableVars>>

\* a variable reference that is not checked
visit_Var_unchecked ==
    /\ Visiting("Var")
    /\ Return(<<>>)
    /\ NoChange

visit_Var ==
    /\ Visiting("Var")
    /\ LET var_name == Head(stack).value
           var_symbol == lookup(symbols, var_name)
       IN  IF var_symbol = None
           THEN Raise(NameError(UndeclaredMsg(var_name)))
           ELSE Return(<<>>)
    /\ NoChange

visit_RelOp ==
    /\ Visiting("RelOp")
    /\ Return(<<Head(stack).left, Head(stack).right>>)
    /\ NoChange

visit_BinOp ==
    /\ Visiting("BinOp")
    /\ Return(<<Head(stack).left, Head(stack).right>>)
    /\ NoChange

visit_UnaryOp ==
    /\ Visiting("UnaryOp")
    /\ Return(<<Head(stack).expr>>)
    /\ NoChange

visit_NoOp ==
    /\ Visiting("NoOp")
    /\ Return(<<>>)
    /\ NoChange

visit_Num ==
    /\ Visiting("Num")
    /\ Return(<<>>)
    /\ NoChange

visit_String ==
    /\ Visiting("String")
    /\ Return(<<>>)
    /\ NoChange

visit_Boolean ==
    /\ Visiting("Boolean")
    /\ Return(<<>>)
    /\ NoChange

\* visit_Type is never called: visit_VarDecl reads node.type.value itself
Next ==
    \/ build
    \/ visit_Program
    \/ visit_Block
    \/ visit_ProcedureDeclaration
    \/ visit_Compound
    \/ visit_Condition
    \/ visit_ForLoop
    \/ visit_Writeln
    \/ visit_Assign
    \/ visit_VarDecl
    \/ visit_Var
    \/ visit_RelOp
    \/ visit_BinOp
    \/ visit_UnaryOp
    \/ visit_NoOp
    \/ visit_Num
    \/ visit_String
    \/ visit_Boolean

Spec == Init /\ [][Next]_vars

\* the pass over trees without declarations
NextBody ==
    \/ build_no_decls
    \/ visit_Program
    \/ visit_Block
    \/ visit_Compound
    \/ visit_Condition
    \/ visit_ForLoop
    \/ visit_Writeln
    \/ visit_Assign
    \/ visit_Var
    \/ visit_RelOp
    \/ visit_BinOp
    \/ visit_UnaryOp
    \/ visit_NoOp
    \/ visit_Num
    \/ visit_String
    \/ visit_Boolean

SpecBody == Init /\ [][NextBody]_vars

----------------------------------------------------------------------------
(* SymbolTable used directly: define and lookup called by a client *)

\* the symbols a client defines: variables of a known or of a missing type
DefinableSymbols ==
    {VarSymbol(n, lookup(init_builtins, t)) : n \in {"x", "y", "INTEGER"}, t \in TypeNames}

LookupNames == {"x", "y", "z", "INTEGER", "REAL"}

Bind(f, name, value) ==
    [n \in DOMAIN f \cup {name} |-> IF n = name THEN value ELSE f[n]]

table_define ==
    /\ \E symbol \in DefinableSymbols :
        /\ symbols' = define(symbols, symbol)
        /\ call' = [op |-> "define", name |-> symbol.name]
        /\ lastDefined' = Bind(lastDefined, symbol.name, symbol)
    /\ seen' = [n \in {} |-> None]
    /\ UNCHANGED <<program, stack, error, visited>>

table_lookup ==
    /\ \E name \in LookupNames :
        LET symbol == lookup(symbols, name)
        IN  /\ call' = [op |-> "lookup", name |-> name, ret |-> symbol]
            /\ seen' = Bind(seen, name, symbol)
    /\ UNCHANGED <<program, symbols, stack, error, visited, lastDefined>>

NextTable ==
    \/ table_define
    \/ table_lookup

SpecTable == Init /\ [][NextTable]_vars

----------------------------------------------------------------------------
(* Vocabulary of the properties *)

BuiltinNames == {"INTEGER", "REAL", "STRING", "BOOLEAN"}

Last(seq) == seq[Len(seq)]

\* the pass is over: build was called and no visit is pending
Done == program # NoTree /\ stack = <<>>

\* this step is the visit of a node of the given class
VisitOf(class) == Visiting(class) /\ visited' # visited

AnyVisit == stack # <<>> /\ visited' # visited

\* the variable declarations of the program's block, in order
VarDeclsOf(tree) == SelectSeq(tree.block.declarations, LAMBDA d : d.node = "VarDecl")

DeclaredNames(tree) == {VarDeclsOf(tree)[i].var.value : i \in DOMAIN VarDeclsOf(tree)}

\* the names a statement or an expression refers to
RECURSIVE Refs(_)
Refs(n) ==
    CASE n.node = "Var" -> {n.value}
      [] n.node = "Assign" -> {n.left.value} \cup Refs(n.right)
      [] n.node \in {"BinOp", "RelOp"} -> Refs(n.left) \cup Refs(n.right)
      [] n.node = "UnaryOp" -> Refs(n.expr)
      [] n.node = "Writeln" -> Refs(n.args)
      [] n.node = "Condition" ->
            Refs(n.condition) \cup Refs(n.statement) \cup Refs(n.otherwise)
      [] n.node = "ForLoop" ->
            Refs(n.identifier) \cup Refs(n.boundary) \cup Refs(n.statement)
      [] n.node = "Compound" -> UNION {Refs(n.children[i]) : i \in DOMAIN n.children}
      [] OTHER -> {}

BodyRefs(tree) == Refs(tree.block.compound_statement)

\* every builtin type name is bound to its builtin-type symbol
BuiltinsIntact(s) == \A b \in BuiltinNames : lookup(s, b) = BuiltinTypeSymbol(b)

----------------------------------------------------------------------------
(* C1 *)

C1_WellFormed(tree) ==
    LET ds == VarDeclsOf(tree)
    IN  /\ \A i, j \in DOMAIN ds : i # j => ds[i].var.value # ds[j].var.value
        /\ \A i \in DOMAIN ds : ds[i].type.value \in BuiltinNames
        /\ \A i \in DOMAIN ds : ds[i].var.value \notin BuiltinNames
        /\ BodyRefs(tree) \subseteq DeclaredNames(tree)

C1_ExpectedTable(tree) ==
    LET ds == VarDeclsOf(tree)
    IN  init_builtins \o
        [i \in DOMAIN ds |->
            [key |-> ds[i].var.value,
             value |-> VarSymbol(ds[i].var.value, BuiltinTypeSymbol(ds[i].type.value))]]

\* C1: a program whose declarations have pairwise distinct names and builtin
\* types, and whose statements refer only to declared variables, is analysed
\* without an exception, and the final table holds the four builtins and one
\* variable symbol per declaration, bound to the symbol of its declared type.
C1_WellFormedProgramSucceeds ==
    (Done /\ C1_WellFormed(program)) =>
        /\ error = NoError
        /\ symbols = C1_ExpectedTable(program)

----------------------------------------------------------------------------
(* C2 *)

C2_RepeatedNames(tree) ==
    LET ds == VarDeclsOf(tree)
    IN  {ds[i].var.value : i \in {k \in DOMAIN ds : \E j \in DOMAIN ds : j # k /\ ds[j].var.value = ds[k].var.value}}

\* C2: visit_VarDecl raises the duplicate-declaration error exactly when the
\* declared name is already bound in the table and otherwise defines a variable
\* symbol of that name and type; a program with two declarations of one name
\* fails with the duplicate-declaration error that names it.
C2_DuplicateRaisedExactlyWhenBound ==
    /\ [][VisitOf("VarDecl") =>
            LET node == Head(stack)
                name == node.var.value
            IN  IF lookup(symbols, name) # None
                THEN /\ error' = NameError(DuplicateMsg(name))
                     /\ symbols' = symbols
                ELSE /\ error' = NoError
                     /\ symbols' = define(symbols,
                            VarSymbol(name, lookup(symbols, node.type.value)))]_vars
    /\ []((Done /\ C2_RepeatedNames(program) # {}) =>
            \E n \in C2_RepeatedNames(program) : error = NameError(DuplicateMsg(n)))

----------------------------------------------------------------------------
(* C3 *)

\* C3 as stated: every name a statement refers to (assignment target,
\* expression, for-loop boundary or index) that no declaration declares makes
\* the analysis fail with the undeclared-name error naming it.
C3_EveryUndeclaredReferenceReported ==
    Done =>
        \A n \in (BodyRefs(program) \ DeclaredNames(program)) \ BuiltinNames :
            error = NameError(UndeclaredMsg(n))

\* C3 amended: when the pass visits an assignment or a variable reference whose
\* name has no entry in the table, it stops there with the undeclared-name
\* error naming that name; when the name has an entry the visit raises nothing.
C3_VisitedUndeclaredReferenceRaises ==
    [][(VisitOf("Assign") \/ VisitOf("Var")) =>
        LET node == Head(stack)
            name == IF node.node = "Assign" THEN node.left.value ELSE node.value
        IN  IF lookup(symbols, name) = None
            THEN /\ error' = NameError(UndeclaredMsg(name))
                 /\ stack' = <<>>
                 /\ symbols' = symbols
            ELSE /\ error' = NoError
                 /\ symbols' = symbols]_vars

\* a for-loop whose boundary is the undeclared y has stopped the pass
C3_Witness ==
    /\ error = NameError(UndeclaredMsg("y"))
    /\ Len(visited) >= 3
    /\ Last(visited) = Var("y")
    /\ visited[Len(visited) - 2].node = "ForLoop"
    /\ visited[Len(visited) - 2].boundary = Var("y")

----------------------------------------------------------------------------
(* C4 *)

\* C4: a declaration whose type has no entry in the table fails and defines
\* nothing, and the table never holds a variable symbol whose type is not a
\* builtin-type symbol.
C4_UnknownTypeFailsSafely ==
    /\ [][(VisitOf("VarDecl") /\ lookup(symbols, Head(stack).type.value) = None) =>
            /\ error' # NoError
            /\ symbols' = symbols]_vars
    /\ [](\A i \in DOMAIN symbols :
            symbols[i].value.class = "VarSymbol" =>
                symbols[i].value.type.class = "BuiltinTypeSymbol")

----------------------------------------------------------------------------
(* C5 *)

\* the node breaks a rule of the language against the table t
C5_Violation(node, t) ==
    CASE node.node = "VarDecl" ->
            lookup(t, node.var.value) # None \/ lookup(t, node.type.value) = None
      [] node.node = "Assign" -> lookup(t, node.left.value) = None
      [] node.node = "Var" -> lookup(t, node.value) = None
      [] OTHER -> FALSE

C5_Prefix(sub) == Len(stack') >= Len(sub) /\ SubSeq(stack', 1, Len(sub)) = sub

\* C5: the error raised is the first violation in traversal order: a visit
\* raises exactly when its node is a violation, nothing is visited after it, the
\* declarations of a block are visited before its statements, an assignment
\* checks its left name before its right side is visited, a conditional visits
\* condition, then-branch, else-branch and a for-loop index, boundary, body.
C5_FirstViolationReported ==
    /\ [][AnyVisit => ((error' # NoError) <=> C5_Violation(Head(stack), symbols))]_vars
    /\ [][error # NoError => visited' = visited]_vars
    /\ [](\A i, j \in DOMAIN visited :
            (i < j /\ visited[j].node \in {"VarDecl", "ProcedureDeclaration"}) =>
                visited[i].node \in {"Program", "Block", "VarDecl", "ProcedureDeclaration"})
    /\ [][(VisitOf("Assign") /\ error' = NoError) =>
            C5_Prefix(<<Head(stack).right>>)]_vars
    /\ [][VisitOf("Condition") =>
            C5_Prefix(<<Head(stack).condition, Head(stack).statement,
                        Head(stack).otherwise>>)]_vars
    /\ [][VisitOf("ForLoop") =>
            C5_Prefix(<<Head(stack).identifier, Head(stack).boundary,
                        Head(stack).statement>>)]_vars

----------------------------------------------------------------------------
(* C6 *)

\* C6: when a visit raises, the table is the table as it stood before the
\* failing node: the builtins and the variable symbol of every declaration
\* visited before it, and the failing node adds or changes nothing.
C6_TableAtFailure ==
    [][(AnyVisit /\ error' # NoError) =>
        /\ symbols' = symbols
        /\ BuiltinsIntact(symbols')
        /\ \A i \in DOMAIN visited :
            visited[i].node = "VarDecl" =>
                /\ lookup(symbols', visited[i].var.value).class = "VarSymbol"
                /\ lookup(symbols', visited[i].var.value).name = visited[i].var.value]_vars

----------------------------------------------------------------------------
(* C7 *)

\* C7: before any node is visited the table of a new SymbolTable or
\* SymbolTableBuilder holds exactly INTEGER, REAL, STRING, BOOLEAN, in that
\* order, each bound to the builtin-type symbol of its own name, and the lookup
\* of each of the four names finds that symbol.
C7_FreshTableHoldsBuiltins ==
    program = NoTree /\ call.op = "new" =>
        /\ Len(symbols) = 4
        /\ [i \in 1..4 |-> symbols[i].key] = <<"INTEGER", "REAL", "STRING", "BOOLEAN">>
        /\ \A i \in 1..4 :
            /\ symbols[i].value.class = "BuiltinTypeSymbol"
            /\ symbols[i].value.name = symbols[i].key
        /\ \A b \in BuiltinNames :
            /\ lookup(symbols, b) # None
            /\ lookup(symbols, b).name = b

\* the builder is constructed and build has not been called
C7_Witness ==
    /\ program = NoTree
    /\ call.op = "new"
    /\ visited = <<>>
    /\ symbols # <<>>

----------------------------------------------------------------------------
(* C8 *)

\* C8: lookup does not raise and leaves the table as it is; for a bound name
\* it returns the symbol most recently defined under the name, for an unbound
\* name None, and a lookup repeated with no define in between returns what the
\* earlier one returned.
C8_LookupIsPure ==
    [][call'.op = "lookup" =>
        /\ symbols' = symbols
        /\ call'.ret.class \in {"NoneType", "BuiltinTypeSymbol", "VarSymbol"}
        /\ call'.ret = (IF call'.name \in DOMAIN lastDefined
                        THEN lastDefined[call'.name] ELSE None)
        /\ (call'.name \in DOMAIN seen => call'.ret = seen[call'.name])]_vars

\* INTEGER was redefined and looked up, then an unbound name was looked up
C8_Witness ==
    /\ call.op = "lookup"
    /\ call.ret = None
    /\ "INTEGER" \in DOMAIN seen
    /\ seen["INTEGER"].class = "VarSymbol"

----------------------------------------------------------------------------
(* C9 *)

\* C9: entries are only added: every name bound in the table stays bound to
\* the same symbol, and the four builtin names stay bound to their builtin-type
\* symbols in every state.
C9_BindingsNeverChange ==
    /\ [][\A k \in Keys(symbols) :
            k \in Keys(symbols') /\ lookup(symbols', k) = lookup(symbols, k)]_vars
    /\ [](BuiltinsIntact(symbols))

----------------------------------------------------------------------------
(* C10 *)

\* C10: the visit of a write statement or of a procedure declaration leaves
\* the table as it is, visits no child of the node and raises nothing,
\* whatever the node contains.
C10_WritelnAndProcedureAreNoOps ==
    [][(VisitOf("Writeln") \/ VisitOf("ProcedureDeclaration")) =>
        /\ symbols' = symbols
        /\ error' = NoError
        /\ stack' = Tail(stack)
        /\ visited' = Append(visited, Head(stack))]_vars

\* a procedure whose body declares x twice and a write of the undeclared x
\* were both visited and the pass ended without an error
C10_Witness ==
    /\ Done
    /\ error = NoError
    /\ \E i, j \in DOMAIN visited :
        /\ visited[i].node = "ProcedureDeclaration"
        /\ Len(visited[i].block.declarations) = 2
        /\ visited[j].node = "Writeln"
        /\ lookup(symbols, visited[j].args.value) = None

====
